---------------------------- MODULE Spec2Model ----------------------------
(***************************************************************************)
(* A model of src/main.py, the Discord auto message bot: load_config,      *)
(* render_message, send_message and the loop of main().                    *)
(*                                                                         *)
(* Python strings are sequences of one-character strings.  A JSON value of *)
(* the configuration file is a record [t, s, n]: t its type, s its text    *)
(* when it is a string, n its number (a float is held in tenths, a list or *)
(* object as its length).                                                  *)
(***************************************************************************)
EXTENDS Integers, Sequences, FiniteSets, TLC

VARIABLES
    data,          \* the parsed config.json (line 45)
    pc,            \* the position of the process in the program
    exitCode,      \* the exit code of the process, -1 while it runs
    raised,        \* the exception that ended main(), NoExc if none
    channel_id,    \* main()'s locals, set by load_config (line 109)
    token,
    messages,
    interval,
    logs,          \* what the logger has been given since the last tick began
    clock,         \* the local time datetime.now() reads
    msg_template,  \* the template of this tick (line 115)
    content,       \* the rendered message of this tick (line 116)
    conn,          \* the connection of the current send_message call
    openConns,     \* the connections of the process that are open
    resp,          \* the response of the current send_message call
    pending,       \* the exception in flight inside send_message
    ticks,         \* history: the ticks begun
    posts,         \* history: the POST requests of the current tick
    sleeps,        \* history: the sleep calls since the current tick began
    sincePost,     \* history: the sleep calls since the last POST, -1 before the first
    lastSleep,     \* history: the argument of the last time.sleep call
    interrupts,    \* history: the KeyboardInterrupts delivered to the process
    out            \* the result of the function under study (SpecLoad, SpecRender)

vars == <<data, pc, exitCode, raised, channel_id, token, messages, interval,
          logs, clock, msg_template, content, conn, openConns, resp, pending,
          ticks, posts, sleeps, sincePost, lastSleep, interrupts, out>>

-----------------------------------------------------------------------------
(* Bounds of the model *)

MaxTokenLen == 5
MaxPieces == 4
MaxTicks == 3
MaxInterrupts == 1

(* Constants of the program *)

DefaultInterval == 3600
SnippetLen == 300
SuccessAbove == 199
SuccessBelow == 300

-----------------------------------------------------------------------------
(* Python strings *)

Min(a, b) == IF a <= b THEN a ELSE b

IsSpace(c) == c = " "

RECURSIVE LStrip(_)
LStrip(s) == IF s # <<>> /\ IsSpace(Head(s)) THEN LStrip(Tail(s)) ELSE s

RECURSIVE RStrip(_)
RStrip(s) ==
    IF s # <<>> /\ IsSpace(s[Len(s)]) THEN RStrip(SubSeq(s, 1, Len(s) - 1)) ELSE s

\* str.strip()
Strip(s) == RStrip(LStrip(s))

LowerChar(c) ==
    CASE c = "B" -> "b"
      [] c = "O" -> "o"
      [] c = "T" -> "t"
      [] OTHER -> c

\* str.lower()
Lower(s) == [i \in 1..Len(s) |-> LowerChar(s[i])]

\* str.startswith(p)
StartsWith(s, p) == Len(s) >= Len(p) /\ SubSeq(s, 1, Len(p)) = p

DigitChars == <<"0", "1", "2", "3", "4", "5", "6", "7", "8", "9">>

IsDigit(c) == \E d \in 1..10 : DigitChars[d] = c
DigitVal(c) == (CHOOSE d \in 1..10 : DigitChars[d] = c) - 1

RECURSIVE NatToStr(_)
NatToStr(n) ==
    IF n < 10 THEN <<DigitChars[n + 1]>>
    ELSE NatToStr(n \div 10) \o <<DigitChars[(n % 10) + 1]>>

\* str(n) of an int
IntToStr(n) == IF n < 0 THEN <<"-">> \o NatToStr(-n) ELSE NatToStr(n)

RECURSIVE DigitsVal(_)
DigitsVal(s) ==
    IF s = <<>> THEN 0 ELSE 10 * DigitsVal(SubSeq(s, 1, Len(s) - 1)) + DigitVal(s[Len(s)])

AllDigits(s) == s # <<>> /\ \A i \in 1..Len(s) : IsDigit(s[i])

\* int(s) of a str: surrounding whitespace, an optional sign, decimal digits
ParseInt(s) ==
    LET t == Strip(s)
        signed == t # <<>> /\ Head(t) \in {"+", "-"}
        digits == IF signed THEN Tail(t) ELSE t
    IN  IF AllDigits(digits)
        THEN [ok |-> TRUE,
              v |-> IF signed /\ Head(t) = "-" THEN -DigitsVal(digits) ELSE DigitsVal(digits)]
        ELSE [ok |-> FALSE, v |-> 0]

-----------------------------------------------------------------------------
(* JSON values *)

JAbsent == [t |-> "absent", s |-> <<>>, n |-> 0]
JNull == [t |-> "null", s |-> <<>>, n |-> 0]
JStr(s) == [t |-> "str", s |-> s, n |-> 0]
JInt(n) == [t |-> "int", s |-> <<>>, n |-> n]
JFloat(tenths) == [t |-> "float", s |-> <<>>, n |-> tenths]
JList(len) == [t |-> "list", s |-> <<>>, n |-> len]

\* the messages field: a list holds its items in l
MAbsent == [t |-> "absent", l |-> <<>>]
MList(l) == [t |-> "list", l |-> l]
MStr == [t |-> "str", l |-> <<>>]

\* bool(x)
Truthy(j) ==
    CASE j.t = "str" -> j.s # <<>>
      [] j.t \in {"int", "float", "list"} -> j.n # 0
      [] OTHER -> FALSE

\* x or d
Or(j, d) == IF Truthy(j) THEN j ELSE d

\* int(x) toward zero
Trunc(n, d) == IF n >= 0 THEN n \div d ELSE -((-n) \div d)

NoExc == [type |-> "", line |-> 0]
Exc(type, line) == [type |-> type, line |-> line]

NoResp == [status |-> 0, reason |-> "", body |-> <<>>, read |-> FALSE]

EmptyRecord ==
    [token |-> JAbsent, channelid |-> JAbsent, messages |-> MAbsent,
     message |-> JAbsent, interval_seconds |-> JAbsent]


-----------------------------------------------------------------------------
(* load_config, lines 43-67 *)

BotPrefix == <<"B", "o", "t", " ">>
BotPrefixLower == <<"b", "o", "t", " ">>
HelloFromVPS ==
    <<"H", "e", "l", "l", "o", " ", "f", "r", "o", "m", " ", "V", "P", "S", "!">>

\* line 47: (data.get('Config') or [{}])[0]
FirstRecord(d) == IF d.present /\ d.list # <<>> THEN d.list[1] ELSE EmptyRecord

\* line 48: cfg.get('token') or ''
TokenField(cfg) == Or(cfg.token, JStr(<<>>))

\* line 49: str(cfg.get('channelid') or '').strip()
ChannelId(cfg) ==
    LET x == Or(cfg.channelid, JStr(<<>>))
    IN  Strip(IF x.t = "int" THEN IntToStr(x.n) ELSE x.s)

TemplatesAnyList(cfg) ==
    IF cfg.messages.t = "list"
    THEN cfg.messages.l
    ELSE <<Or(cfg.message, JStr(HelloFromVPS))>>

\* lines 52-55: the "messages" list, or the single "message", or the fallback
Templates(cfg) ==
    IF cfg.messages.t = "list" /\ Len(cfg.messages.l) > 0
    THEN cfg.messages.l
    ELSE <<Or(cfg.message, JStr(HelloFromVPS))>>

\* line 57: int(cfg.get('interval_seconds') or 3600)
IntervalOf(cfg) ==
    LET x == Or(cfg.interval_seconds, JInt(DefaultInterval))
    IN  CASE x.t = "int" -> [exc |-> NoExc, v |-> x.n]
          [] x.t = "float" -> [exc |-> NoExc, v |-> Trunc(x.n, 10)]
          [] x.t = "str" ->
               IF ParseInt(x.s).ok THEN [exc |-> NoExc, v |-> ParseInt(x.s).v]
               ELSE [exc |-> Exc("ValueError", 57), v |-> 0]
          [] OTHER -> [exc |-> Exc("TypeError", 57), v |-> 0]

\* line 60: the token lacks the prefix
NeedsPrefix(tok) == tok # <<>> /\ ~StartsWith(Lower(tok), BotPrefixLower)

EnsureBotPrefixCaseSensitive(tok) ==
    IF tok # <<>> /\ ~StartsWith(tok, BotPrefix) THEN BotPrefix \o tok ELSE tok

\* lines 60-62
EnsureBotPrefix(tok) == IF NeedsPrefix(tok) THEN BotPrefix \o tok ELSE tok

Failed(e, warned) ==
    [exc |-> e, channel_id |-> <<>>, token |-> <<>>, messages |-> <<>>,
     interval |-> 0, warned |-> warned]

\* the result of load_config(): the exception it raises or the tuple it returns,
\* and whether it logged the prefix warning of line 61
LoadConfig(d) ==
    LET cfg == FirstRecord(d)
        tok == Strip(TokenField(cfg).s)
        chan == ChannelId(cfg)
        iv == IntervalOf(cfg)
    IN  IF TokenField(cfg).t # "str" THEN Failed(Exc("AttributeError", 48), FALSE)
        ELSE IF iv.exc # NoExc THEN Failed(iv.exc, FALSE)
        ELSE IF EnsureBotPrefix(tok) = <<>> \/ chan = <<>>
             THEN Failed(Exc("ValueError", 65), NeedsPrefix(tok))
        ELSE [exc |-> NoExc, channel_id |-> chan, token |-> EnsureBotPrefix(tok),
              messages |-> Templates(cfg), interval |-> iv.v,
              warned |-> NeedsPrefix(tok)]

-----------------------------------------------------------------------------
(* The configuration files of the model *)

SeqsUpTo(S, n) == UNION {[1..k -> S] : k \in 0..n}

Cfg(tok, chan, msgs, msg, iv) ==
    [token |-> tok, channelid |-> chan, messages |-> msgs, message |-> msg,
     interval_seconds |-> iv]

Data(l) == [present |-> TRUE, list |-> l]
NoConfigKey == [present |-> FALSE, list |-> <<>>]

TokenChars == {"B", "b", "o", "T", "t", " ", "x"}
TokenStrings(n) == SeqsUpTo(TokenChars, n)

NowTemplate == <<"t", "=", "{", "n", "o", "w", "}">>

TokenValues == {JAbsent, JStr(<<" ">>), JInt(7), JStr(<<"x">>), JStr(<<"b", "O", "t", " ", "x">>)}
ChannelValues ==
    {JAbsent, JNull, JInt(0), JInt(42), JStr(<<" ">>), JStr(<<" ", "c", " ">>)}
MessagesValues ==
    {MAbsent, MList(<<>>), MStr, MList(<<JStr(<<"h", "i">>), JStr(NowTemplate)>>),
     MList(<<JStr(<<"a">>), JInt(5)>>)}
MessageValues == {JAbsent, JStr(<<>>), JStr(<<"m">>), JInt(5)}
IntervalValues ==
    {JAbsent, JNull, JInt(0), JInt(60), JInt(-5), JFloat(5), JFloat(-5), JFloat(25),
     JStr(<<>>), JStr(<<"6", "0">>), JStr(<<" ", "6", "0", " ">>), JStr(<<"-", "5">>),
     JStr(<<"a", "b", "c">>), JList(0), JList(1)}

ValidCfg == Cfg(JStr(<<"x">>), JStr(<<"c">>), MAbsent, JAbsent, JAbsent)

\* the files load_config is studied on, with tokens of up to n characters
DataLoad(n) ==
    {Data(<<Cfg(JStr(s), JStr(<<"c">>), MAbsent, JAbsent, JAbsent)>>) : s \in TokenStrings(n)}
    \cup {Data(<<Cfg(tok, chan, MAbsent, JAbsent, iv)>>) :
            tok \in TokenValues, chan \in ChannelValues, iv \in IntervalValues}
    \cup {Data(<<Cfg(JStr(<<"x">>), JStr(<<"c">>), msgs, msg, JAbsent)>>) :
            msgs \in MessagesValues, msg \in MessageValues}
    \cup {NoConfigKey, Data(<<>>), Data(<<ValidCfg, EmptyRecord>>),
          Data(<<EmptyRecord, ValidCfg>>)}

-----------------------------------------------------------------------------
(* The state before the program has run *)

Fresh ==
    /\ exitCode = -1
    /\ raised = NoExc
    /\ channel_id = <<>>
    /\ token = <<>>
    /\ messages = <<>>
    /\ interval = 0
    /\ logs = <<>>
    /\ content = <<>>
    /\ conn = "none"
    /\ openConns = 0
    /\ resp = NoResp
    /\ pending = NoExc
    /\ ticks = 0
    /\ posts = 0
    /\ sleeps = 0
    /\ sincePost = -1
    /\ lastSleep = 0
    /\ interrupts = 0
    /\ out = <<>>

Clocks ==
    {[Y |-> 2026, M |-> 11, D |-> 3, h |-> 17, m |-> 39, s |-> 5],
     [Y |-> 2027, M |-> 1, D |-> 1, h |-> 0, m |-> 0, s |-> 0]}

-----------------------------------------------------------------------------
(* load_config alone *)

InitLoad ==
    /\ data \in DataLoad(MaxTokenLen)
    /\ pc = "load_config"
    /\ clock \in {CHOOSE c \in Clocks : TRUE}
    /\ msg_template = JAbsent
    /\ Fresh

CallLoadConfig ==
    /\ pc = "load_config"
    /\ out' = LoadConfig(data)
    /\ pc' = "load_config_done"
    /\ UNCHANGED <<data, exitCode, raised, channel_id, token, messages, interval,
                   logs, clock, msg_template, content, conn, openConns, resp,
                   pending, ticks, posts, sleeps, sincePost, lastSleep, interrupts>>

NextLoad == CallLoadConfig

SpecLoad == InitLoad /\ [][NextLoad]_vars


BotPrefixSpellings ==
    {<<b, o, t, " ">> : b \in {"B", "b"}, o \in {"O", "o"}, t \in {"T", "t"}}

HasBotPrefix(s) == \E p \in BotPrefixSpellings : Len(s) >= 4 /\ SubSeq(s, 1, 4) = p

(* C3: for every configuration load_config accepts, the credential it returns
   is non-empty and begins with "Bot " in some letter case; a trimmed token
   that already begins with "Bot " in any letter case is returned unchanged,
   any other token is returned as "Bot " followed by the trimmed token, and
   the prefix rule applied to the result changes nothing. *)
C3_CredentialPrefixed ==
    (pc = "load_config_done" /\ out.exc = NoExc) =>
        LET trimmed == Strip(FirstRecord(data).token.s)
        IN  /\ out.token # <<>>
            /\ HasBotPrefix(out.token)
            /\ HasBotPrefix(trimmed) => out.token = trimmed
            /\ ~HasBotPrefix(trimmed) => out.token = <<"B", "o", "t", " ">> \o trimmed
            /\ EnsureBotPrefix(out.token) = out.token

\* an accepted token that carried the prefix in another letter case
C3_Witness ==
    /\ pc = "load_config_done"
    /\ out.exc = NoExc
    /\ FirstRecord(data).token.s = <<"b", "O", "t", " ", "x">>
    /\ out.token = <<"b", "O", "t", " ", "x">>

ValidRequired(cfg) ==
    /\ cfg.token.t = "str"
    /\ Strip(cfg.token.s) # <<>>
    /\ ChannelId(cfg) # <<>>

(* C5: for every record with a valid token and channelid load_config returns
   a positive integer interval: the integer value of interval_seconds when it
   is a number, 3600 when it is missing or not a number; an invalid interval
   field never makes loading fail. *)
C5_IntervalPositive ==
    (pc = "load_config_done" /\ ValidRequired(FirstRecord(data))) =>
        LET iv == FirstRecord(data).interval_seconds
        IN  /\ out.exc = NoExc
            /\ out.interval > 0
            /\ iv.t = "int" /\ iv.n > 0 => out.interval = iv.n
            /\ (iv.t \in {"absent", "null", "list"} \/ (iv.t = "str" /\ ~ParseInt(iv.s).ok))
                   => out.interval = DefaultInterval

-----------------------------------------------------------------------------
(* render_message, lines 81-83 *)

NowToken == <<"{", "n", "o", "w", "}">>

RECURSIVE Pad(_, _)
\* %0<width>d of strftime
Pad(n, width) ==
    IF width = 0 THEN <<>> ELSE Pad(n \div 10, width - 1) \o <<DigitChars[(n % 10) + 1]>>

\* line 82: strftime("%Y-%m-%d %H:%M:%S")
Strftime(c) ==
    Pad(c.Y, 4) \o <<"-">> \o Pad(c.M, 2) \o <<"-">> \o Pad(c.D, 2) \o <<" ">>
        \o Pad(c.h, 2) \o <<":">> \o Pad(c.m, 2) \o <<":">> \o Pad(c.s, 2)

RECURSIVE ReplaceFirst(_, _, _)
ReplaceFirst(s, old, new) ==
    IF Len(s) < Len(old) THEN s
    ELSE IF StartsWith(s, old) THEN new \o SubSeq(s, Len(old) + 1, Len(s))
    ELSE <<Head(s)>> \o ReplaceFirst(Tail(s), old, new)

RECURSIVE Replace(_, _, _)
\* str.replace(old, new): every occurrence, left to right, not overlapping
Replace(s, old, new) ==
    IF Len(s) < Len(old) THEN s
    ELSE IF StartsWith(s, old)
         THEN new \o Replace(SubSeq(s, Len(old) + 1, Len(s)), old, new)
    ELSE <<Head(s)>> \o Replace(Tail(s), old, new)

\* render_message(template) at the clock reading c
RenderMessage(template, c) ==
    IF template.t # "str" THEN [exc |-> Exc("AttributeError", 83), s |-> <<>>]
    ELSE [exc |-> NoExc, s |-> Replace(template.s, NowToken, Strftime(c))]

Pieces ==
    {NowToken, <<"{">>, <<"}">>, <<"n", "o", "w">>, <<"{", "n", "o">>, <<"w", "}">>,
     <<"x">>}

RECURSIVE Flatten(_)
Flatten(ps) == IF ps = <<>> THEN <<>> ELSE Head(ps) \o Flatten(Tail(ps))

\* the templates render_message is studied on, of up to n pieces
TemplateStrings(n) == {Flatten(ps) : ps \in SeqsUpTo(Pieces, n)}

InitRender ==
    /\ data = NoConfigKey
    /\ pc = "render_message"
    /\ clock \in Clocks
    /\ msg_template \in {JStr(t) : t \in TemplateStrings(MaxPieces)} \cup {JInt(5)}
    /\ Fresh

CallRenderMessage ==
    /\ pc = "render_message"
    /\ out' = RenderMessage(msg_template, clock)
    /\ pc' = "render_message_done"
    /\ UNCHANGED <<data, exitCode, raised, channel_id, token, messages, interval,
                   logs, clock, msg_template, content, conn, openConns, resp,
                   pending, ticks, posts, sleeps, sincePost, lastSleep, interrupts>>

NextRender == CallRenderMessage

SpecRender == InitRender /\ [][NextRender]_vars

Occurrences(s) == {i \in 1..Len(s) : i + 4 <= Len(s) /\ SubSeq(s, i, i + 4) = NowToken}

RECURSIVE Substituted(_, _, _)
\* s from position i on, each occurrence of "{now}" standing for ts
Substituted(s, i, ts) ==
    IF i > Len(s) THEN <<>>
    ELSE IF i \in Occurrences(s) THEN ts \o Substituted(s, i + 5, ts)
    ELSE <<s[i]>> \o Substituted(s, i + 1, ts)

(* C10: render_message, at a fixed clock reading, replaces every occurrence
   of "{now}" in the template by the 19-character timestamp and changes
   nothing else: a template without "{now}" comes back unchanged, the result
   holds no "{now}", and rendering the result again returns it unchanged. *)
C10_RenderReplacesEveryNow ==
    (pc = "render_message_done" /\ msg_template.t = "str") =>
        /\ out.exc = NoExc
        /\ Len(Strftime(clock)) = 19
        /\ out.s = Substituted(msg_template.s, 1, Strftime(clock))
        /\ Len(out.s) = Len(msg_template.s) + 14 * Cardinality(Occurrences(msg_template.s))
        /\ Occurrences(msg_template.s) = {} => out.s = msg_template.s
        /\ Occurrences(out.s) = {}
        /\ RenderMessage(JStr(out.s), clock) = out

\* a template with two placeholders and text between them has been rendered
C10_Witness ==
    /\ pc = "render_message_done"
    /\ msg_template = JStr(NowToken \o <<"x">> \o NowToken)
    /\ out.s = Strftime(clock) \o <<"x">> \o Strftime(clock)


-----------------------------------------------------------------------------
(* send_message, lines 86-105 *)

IsSuccessOffByOne(status) == SuccessAbove + 1 < status /\ status < SuccessBelow

\* line 94: 199 < resp.status < 300
IsSuccess(status) == SuccessAbove < status /\ status < SuccessBelow

\* bytes.decode(errors="ignore") of bytes that are ASCII or the invalid byte 0xFF
Decode(bytes) == SelectSeq(bytes, LAMBDA b : b < 128)

\* line 97: (resp_body[:300] if resp_body else b'').decode(errors="ignore")
Snippet(body) ==
    Decode(IF body # <<>> THEN SubSeq(body, 1, Min(SnippetLen, Len(body))) ELSE <<>>)

LogRec(level, what, status, reason, text) ==
    [level |-> level, what |-> what, status |-> status, reason |-> reason, text |-> text]

KbdInt == Exc("KeyboardInterrupt", 0)

\* what the server may answer
Statuses == {199, 200, 204, 299, 300, 404}
ReasonOf(status) ==
    CASE status = 404 -> "Not Found"
      [] status = 204 -> "No Content"
      [] status = 300 -> "Multiple Choices"
      [] OTHER -> "OK"
Bodies ==
    {<<>>, <<123, 255, 125>>, [i \in 1..(SnippetLen + 1) |-> IF i > SnippetLen THEN 66 ELSE 65]}

-----------------------------------------------------------------------------
(* The process: main() under the handler of lines 122-127 *)

loaded == <<channel_id, token, messages, interval>>
history == <<ticks, posts, sleeps, sincePost, lastSleep, interrupts>>

\* the files the process is run on
DataMain ==
    {Data(<<Cfg(JStr(<<"x">>), JInt(42),
                MList(<<JStr(<<"h", "i">>), JStr(NowTemplate)>>), JAbsent, JInt(60))>>),
     Data(<<Cfg(JStr(<<"b", "O", "t", " ", "x">>), JStr(<<"c">>),
                MList(<<JStr(<<"a">>), JInt(5)>>), JStr(<<"m">>), JFloat(5))>>),
     Data(<<Cfg(JStr(<<"x">>), JStr(<<"c">>), MAbsent, JStr(<<"m">>), JInt(-5))>>),
     Data(<<ValidCfg, EmptyRecord>>),
     Data(<<Cfg(JStr(<<"x">>), JStr(<<"c">>), MList(<<>>), JStr(<<>>), JStr(<<"6", "0">>))>>),
     Data(<<Cfg(JStr(<<"x">>), JStr(<<"c">>), MStr, JInt(5), JAbsent)>>),
     Data(<<Cfg(JStr(<<"x">>), JStr(<<"c">>), MAbsent, JAbsent, JStr(<<"a", "b", "c">>))>>),
     Data(<<Cfg(JAbsent, JStr(<<"c">>), MAbsent, JAbsent, JAbsent)>>),
     Data(<<Cfg(JStr(<<" ">>), JStr(<<"c">>), MAbsent, JAbsent, JInt(60))>>),
     Data(<<Cfg(JStr(<<"x">>), JAbsent, MAbsent, JAbsent, JAbsent)>>),
     Data(<<Cfg(JStr(<<"x">>), JInt(0), MAbsent, JAbsent, JAbsent)>>),
     Data(<<Cfg(JAbsent, JStr(<<"c">>), MAbsent, JAbsent, JList(1))>>),
     Data(<<Cfg(JInt(7), JAbsent, MAbsent, JAbsent, JAbsent)>>),
     NoConfigKey,
     Data(<<>>)}

Init ==
    /\ data \in DataMain
    /\ pc = "main"
    /\ clock \in {CHOOSE c \in Clocks : TRUE}
    /\ msg_template = JAbsent
    /\ Fresh

\* lines 125-127: the interrupt reaches the handler of the script
StoppedByUser ==
    /\ logs' = Append(logs, LogRec("INFO", "stopped", 0, "", <<>>))
    /\ exitCode' = 0
    /\ pc' = "exited"
    /\ UNCHANGED raised

\* lines 109-111: load_config() and the startup summary
Startup ==
    /\ pc = "main"
    /\ LET r == LoadConfig(data)
           warning == IF r.warned THEN <<LogRec("WARNING", "prefix", 0, "", <<>>)>> ELSE <<>>
       IN  IF r.exc # NoExc
           THEN /\ raised' = r.exc
                /\ exitCode' = 1
                /\ pc' = "exited"
                /\ logs' = warning
                /\ UNCHANGED loaded
           ELSE /\ channel_id' = r.channel_id
                /\ token' = r.token
                /\ messages' = r.messages
                /\ interval' = r.interval
                /\ logs' = Append(warning,
                                  LogRec("INFO", "started", Len(r.messages), "", <<>>))
                /\ pc' = "choose"
                /\ UNCHANGED <<raised, exitCode>>
    /\ UNCHANGED <<data, clock, msg_template, content, conn, openConns, resp, pending,
                   history, out>>

\* line 115: random.choice(messages), the beginning of a tick
Choose ==
    /\ pc = "choose"
    /\ ticks < MaxTicks
    /\ \E i \in 1..Len(messages) : msg_template' = messages[i]
    /\ ticks' = ticks + 1
    /\ posts' = 0
    /\ sleeps' = 0
    /\ logs' = <<>>
    /\ resp' = NoResp
    /\ conn' = "none"
    /\ content' = <<>>
    /\ pc' = "render"
    /\ UNCHANGED <<data, exitCode, raised, loaded, clock, openConns, pending,
                   sincePost, lastSleep, interrupts, out>>

\* line 116: render_message(msg_template)
Render ==
    /\ pc = "render"
    /\ \E c \in Clocks :
         /\ clock' = c
         /\ LET r == RenderMessage(msg_template, c)
            IN  IF r.exc # NoExc
                THEN /\ pending' = r.exc
                     /\ pc' = "loop_except"
                     /\ UNCHANGED content
                ELSE /\ content' = r.s
                     /\ pc' = "send_message"
                     /\ UNCHANGED pending
    /\ UNCHANGED <<data, exitCode, raised, loaded, logs, msg_template, conn, openConns,
                   resp, history, out>>

\* lines 87-89: the body, the headers and a new, unconnected HTTPSConnection
SendEntry ==
    /\ pc = "send_message"
    /\ conn' = "new"
    /\ pc' = "request"
    /\ UNCHANGED <<data, exitCode, raised, loaded, logs, clock, msg_template, content,
                   openConns, resp, pending, history, out>>

\* line 91: conn.request("POST", ...) connects and sends
Request ==
    /\ pc = "request"
    /\ posts' = posts + 1
    /\ sincePost' = 0
    /\ \E o \in {"sent", "connect failed", "send failed"} :
         /\ conn' = IF o = "connect failed" THEN conn ELSE "open"
         /\ openConns' = IF o = "connect failed" THEN openConns ELSE openConns + 1
         /\ pending' = IF o = "sent" THEN NoExc ELSE Exc("OSError", 91)
         /\ pc' = IF o = "sent" THEN "getresponse" ELSE "except"
    /\ UNCHANGED <<data, exitCode, raised, loaded, logs, clock, msg_template, content,
                   resp, ticks, sleeps, lastSleep, interrupts, out>>

\* line 92: conn.getresponse()
GetResponse ==
    /\ pc = "getresponse"
    /\ \/ \E st \in Statuses :
            /\ resp' = [status |-> st, reason |-> ReasonOf(st), body |-> <<>>,
                        read |-> FALSE]
            /\ pc' = "read"
            /\ UNCHANGED pending
       \/ /\ pending' = Exc("OSError", 92)
          /\ pc' = "except"
          /\ UNCHANGED resp
    /\ UNCHANGED <<data, exitCode, raised, loaded, logs, clock, msg_template, content,
                   conn, openConns, history, out>>

\* line 93: resp.read()
Read ==
    /\ pc = "read"
    /\ \/ \E b \in Bodies :
            /\ resp' = [resp EXCEPT !.body = b, !.read = TRUE]
            /\ pc' = "classify"
            /\ UNCHANGED pending
       \/ /\ pending' = Exc("OSError", 93)
          /\ pc' = "except"
          /\ UNCHANGED resp
    /\ UNCHANGED <<data, exitCode, raised, loaded, logs, clock, msg_template, content,
                   conn, openConns, history, out>>

\* lines 94-98: the outcome of a completed response
Classify ==
    /\ pc = "classify"
    /\ logs' = Append(logs,
                      IF IsSuccess(resp.status)
                      THEN LogRec("INFO", "sent", 0, "", <<>>)
                      ELSE LogRec("ERROR", "http", resp.status, resp.reason,
                                  Snippet(resp.body)))
    /\ pc' = "finally"
    /\ UNCHANGED <<data, exitCode, raised, loaded, clock, msg_template, content, conn,
                   openConns, resp, pending, history, out>>

\* lines 99-100: except Exception inside send_message
Except ==
    /\ pc = "except"
    /\ logs' = Append(logs, LogRec("ERROR", "exception", 0, pending.type, <<>>))
    /\ pending' = NoExc
    /\ pc' = "finally"
    /\ UNCHANGED <<data, exitCode, raised, loaded, clock, msg_template, content, conn,
                   openConns, resp, history, out>>

\* after the finally clause: the interrupt in flight goes on to the handler of
\* line 125, otherwise send_message returns and main() reaches line 120
LeaveSend ==
    IF pending = KbdInt
    THEN StoppedByUser
    ELSE pc' = "sleep" /\ UNCHANGED <<logs, exitCode, raised>>

\* lines 101-105: conn.close()
Close ==
    /\ pc = "finally"
    /\ conn' = "closed"
    /\ openConns' = IF conn = "open" THEN openConns - 1 ELSE openConns
    /\ LeaveSend
    /\ UNCHANGED <<data, loaded, clock, msg_template, content, resp, pending, history,
                   out>>

LoopExceptRetry ==
    /\ pc = "loop_except"
    /\ logs' = Append(logs, LogRec("ERROR", "loop", 0, pending.type, <<>>))
    /\ pending' = NoExc
    /\ pc' = "choose"
    /\ UNCHANGED <<data, exitCode, raised, loaded, clock, msg_template, content, conn,
                   openConns, resp, history, out>>

\* lines 118-119: except Exception in the loop
LoopExcept ==
    /\ pc = "loop_except"
    /\ logs' = Append(logs, LogRec("ERROR", "loop", 0, pending.type, <<>>))
    /\ pending' = NoExc
    /\ pc' = "sleep"
    /\ UNCHANGED <<data, exitCode, raised, loaded, clock, msg_template, content, conn,
                   openConns, resp, history, out>>

\* line 120: time.sleep(interval), which raises ValueError on a negative length
Sleep ==
    /\ pc = "sleep"
    /\ sleeps' = sleeps + 1
    /\ sincePost' = IF sincePost >= 0 THEN sincePost + 1 ELSE sincePost
    /\ lastSleep' = interval
    /\ IF interval < 0
       THEN /\ raised' = Exc("ValueError", 120)
            /\ exitCode' = 1
            /\ pc' = "exited"
       ELSE /\ pc' = "choose"
            /\ UNCHANGED <<raised, exitCode>>
    /\ UNCHANGED <<data, loaded, logs, clock, msg_template, content, conn, openConns,
                   resp, pending, ticks, posts, interrupts, out>>

\* a KeyboardInterrupt is delivered to the process
Interrupt ==
    /\ pc # "exited"
    /\ interrupts < MaxInterrupts
    /\ interrupts' = interrupts + 1
    /\ \/ \* in main() outside send_message's try: nothing catches it before line 125
          /\ pc \in {"main", "choose", "render", "send_message", "loop_except", "sleep"}
          /\ StoppedByUser
          /\ UNCHANGED <<conn, openConns, pending, posts, sincePost>>
       \/ \* during conn.request: before or after the socket is connected
          /\ pc = "request"
          /\ \E connected \in BOOLEAN :
               /\ conn' = IF connected THEN "open" ELSE conn
               /\ openConns' = IF connected THEN openConns + 1 ELSE openConns
               /\ posts' = IF connected THEN posts + 1 ELSE posts
               /\ sincePost' = IF connected THEN 0 ELSE sincePost
          /\ pending' = KbdInt
          /\ pc' = "finally"
          /\ UNCHANGED <<logs, exitCode, raised>>
       \/ \* inside the try or the handler of lines 90-100: the finally clause runs
          /\ pc \in {"getresponse", "read", "classify", "except"}
          /\ pending' = KbdInt
          /\ pc' = "finally"
          /\ UNCHANGED <<logs, exitCode, raised, conn, openConns, posts, sincePost>>
       \/ \* inside the try of line 102: the bare except of line 104 swallows it,
          \* whether or not conn.close() had released the socket
          /\ pc = "finally"
          /\ \E released \in BOOLEAN :
               /\ conn' = IF released THEN "closed" ELSE conn
               /\ openConns' = IF released /\ conn = "open" THEN openConns - 1
                               ELSE openConns
          /\ LeaveSend
          /\ UNCHANGED <<pending, posts, sincePost>>
    /\ UNCHANGED <<data, loaded, clock, msg_template, content, resp, ticks, sleeps,
                   lastSleep, out>>

Next ==
    \/ Startup
    \/ Choose
    \/ Render
    \/ SendEntry
    \/ Request
    \/ GetResponse
    \/ Read
    \/ Classify
    \/ Except
    \/ Close
    \/ LoopExcept
    \/ Sleep
    \/ Interrupt

Spec == Init /\ [][Next]_vars


-----------------------------------------------------------------------------
(* Claims about the process *)

InLoop ==
    {"choose", "render", "send_message", "request", "getresponse", "read", "classify",
     "except", "finally", "loop_except", "sleep"}

InSend == {"request", "getresponse", "read", "classify", "except", "finally"}

\* load_config returned: main() holds a configuration
Accepted == channel_id # <<>>

(* C1: once main() is in its loop no send outcome ends the process: whatever
   a tick's outcome (2xx, non-2xx, exception in the request, exception in the
   rendering), the tick is followed by the sleep and the sleep by another
   tick, and send_message never hands an Exception to its caller. *)
C1_TickThenSleepThenTick ==
    [][(pc \in InLoop /\ interrupts' = interrupts /\ pending # KbdInt) =>
          /\ pc' # "exited"
          /\ pc \in {"finally", "loop_except"} => pc' = "sleep"
          /\ pc = "finally" => pending = NoExc
          /\ pc = "sleep" => pc' = "choose"]_vars

MissingRequired(cfg) ==
    \/ ~Truthy(cfg.token)
    \/ cfg.token.t = "str" /\ Strip(cfg.token.s) = <<>>
    \/ ~Truthy(cfg.channelid)
    \/ cfg.channelid.t = "str" /\ Strip(cfg.channelid.s) = <<>>

(* C2: for every record whose token or channelid is missing or empty after
   trimming, an absent or empty Config list included, load_config fails with
   the ValueError of the configuration check before the loop starts: no
   startup summary is logged, no send is attempted and no sleep occurs. *)
C2_MissingRequiredFailsBeforeLoop ==
    (pc # "main" /\ interrupts = 0 /\ MissingRequired(FirstRecord(data))) =>
        /\ pc = "exited"
        /\ exitCode # 0
        /\ raised.type = "ValueError"
        /\ \A i \in 1..Len(logs) : logs[i].what # "started"
        /\ ticks = 0
        /\ posts = 0
        /\ sleeps = 0

(* C4: for every accepted configuration the template list is non-empty: the
   "messages" field as it is when that is a non-empty list, otherwise the one
   "message" field when it is set, otherwise ["Hello from VPS!"]; the choice
   of a tick always has a template to pick, and the template of a tick is an
   element of the list. *)
C4_TemplatesNonEmpty ==
    Accepted =>
        LET cfg == FirstRecord(data)
        IN  /\ Len(messages) >= 1
            /\ cfg.messages.t = "list" /\ cfg.messages.l # <<>> => messages = cfg.messages.l
            /\ ~(cfg.messages.t = "list" /\ cfg.messages.l # <<>>) =>
                   /\ Truthy(cfg.message) => messages = <<cfg.message>>
                   /\ ~Truthy(cfg.message) =>
                          messages = <<JStr(<<"H", "e", "l", "l", "o", " ", "f", "r", "o",
                                              "m", " ", "V", "P", "S", "!">>)>>
            /\ ticks > 0 => \E i \in 1..Len(messages) : msg_template = messages[i]

\* a tick picked the second template of a configured list
C4_Witness ==
    /\ pc = "send_message"
    /\ Len(messages) = 2
    /\ FirstRecord(data).messages.l = messages
    /\ msg_template = messages[2]

(* C6 as stated: every tick makes at most one POST and is followed by one
   sleep of the configured interval; between any two consecutive send
   attempts there is exactly one sleep. *)
C6_OneSleepBetweenSends ==
    /\ posts <= 1
    /\ pc = "request" => sincePost \in {-1, 1}
    /\ (Accepted /\ sleeps > 0) => lastSleep = interval

(* C6, amended: every tick makes at most one POST, a failed send is not
   retried, and between any two consecutive ticks there is exactly one sleep
   call, made with the interval load_config returned; main()'s configuration
   does not change after startup. *)
C6_OneSleepBetweenTicks ==
    Accepted =>
        /\ posts <= 1
        /\ (pc = "choose" /\ ticks > 0) => sleeps = 1
        /\ pc \in InLoop \ {"choose"} => sleeps = 0
        /\ sleeps <= 1
        /\ sleeps > 0 \/ sincePost > 0 => lastSleep = interval
        /\ interval = LoadConfig(data).interval
        /\ messages = LoadConfig(data).messages
        /\ token = LoadConfig(data).token
        /\ channel_id = LoadConfig(data).channel_id

\* after a POST, a tick whose rendering failed has slept once and the next is due
C6_Witness ==
    /\ pc = "choose"
    /\ ticks = 2
    /\ sleeps = 1
    /\ sincePost = 2
    /\ lastSleep = interval

(* C7: every connection send_message opens is closed before it returns or
   propagates, on every path, an interrupt during the call included: no
   connection is open outside send_message, none while the loop sleeps, and
   at most one exists at any time. *)
C7_ConnectionAlwaysClosed ==
    /\ openConns <= 1
    /\ pc = "sleep" => openConns = 0
    /\ pc \notin InSend => openConns = 0

Classified == pc \in {"finally", "sleep"} /\ resp.read /\ pending = NoExc /\ interrupts = 0

LogsOf(what) == {i \in 1..Len(logs) : logs[i].what = what}

(* C8: send_message classifies a completed response by its status alone:
   success, and no error, is logged for every status from 200 to 299; for any
   other status one error is logged with the status, the reason phrase and at
   most the first 300 bytes of the body, and no success. *)
C8_StatusDecidesTheLog ==
    Classified =>
        IF resp.status >= 200 /\ resp.status <= 299
        THEN /\ Cardinality(LogsOf("sent")) = 1
             /\ \A i \in 1..Len(logs) : logs[i].level # "ERROR"
        ELSE /\ LogsOf("sent") = {}
             /\ Cardinality(LogsOf("http")) = 1
             /\ \A i \in LogsOf("http") :
                  /\ logs[i].level = "ERROR"
                  /\ logs[i].status = resp.status
                  /\ logs[i].reason = resp.reason
                  /\ Len(logs[i].text) <= 300
                  /\ \E k \in 0..300 :
                       /\ k <= Len(resp.body)
                       /\ k = 300 \/ k = Len(resp.body)
                       /\ logs[i].text = SelectSeq(SubSeq(resp.body, 1, k),
                                                   LAMBDA b : b # 255)

\* a 404 with a body longer than the snippet has been logged
C8_Witness ==
    /\ pc = "finally"
    /\ pending = NoExc
    /\ resp.status = 404
    /\ Len(resp.body) = 301
    /\ \E i \in 1..Len(logs) : logs[i].what = "http" /\ Len(logs[i].text) = 300

(* C9: the process ends in two ways only: a KeyboardInterrupt, at any point
   of the config load, of a send or of the sleep, ends it with exit code 0,
   and an exception of the config load ends it with a non-zero code; once the
   loop runs nothing but the interrupt ends the process. *)
C9_TwoWaysToEnd ==
    /\ pc = "exited" =>
          \/ exitCode = 0 /\ interrupts > 0 /\ raised = NoExc
          \/ exitCode # 0 /\ raised # NoExc /\ raised.line >= 43 /\ raised.line <= 67
    /\ interrupts > 0 =>
          \/ pc = "exited" /\ exitCode = 0
          \/ pc = "finally" /\ pending = KbdInt

=============================================================================
